---- MODULE Spec2Model ----
(***************************************************************************)
(* Model of custom_components/hyperhdr/switch.py: the component switches   *)
(* of the HyperHDR integration.  One HyperHDRComponentSwitch is created    *)
(* per managed component for every instance the directory announces; the   *)
(* switches mirror the client's component snapshot and forward turn_on /   *)
(* turn_off to the client.                                                 *)
(*                                                                         *)
(* The host (Home Assistant) runs everything on one event loop.  A         *)
(* @callback runs to completion inside the step that calls it; a coroutine *)
(* the host schedules (the attachment started by async_add_entities, the   *)
(* async_remove started by a removal signal) runs later.  The loop runs    *)
(* what is ready first-in first-out and none of these coroutines suspends, *)
(* so the tasks one handler schedules run back to back: `loop` holds them  *)
(* as one batch, oldest batch first, and a step runs the oldest batch.     *)
(***************************************************************************)
EXTENDS Naturals, Sequences, FiniteSets, TLC

(***************************************************************************)
(* Bounds of the model.                                                    *)
(***************************************************************************)
MaxAdds == 2            \* instance-added events in one behaviour
MaxLoop == 2            \* an instance-removed event is taken while fewer batches wait
MaxInflight == 1        \* a turn_on / turn_off is taken while fewer requests are unsettled
MaxSnapshot == 2        \* entries of a snapshot given to is_on on its own

\* The instance numbers the directory announces.
Instances == { 1, 2 }

(***************************************************************************)
(* Component identifiers and their display names (hyperhdr.const).         *)
(***************************************************************************)
KEY_COMPONENTID_ALL == "ALL"
KEY_COMPONENTID_SMOOTHING == "SMOOTHING"
KEY_COMPONENTID_BLACKBORDER == "BLACKBORDER"
KEY_COMPONENTID_FORWARDER == "FORWARDER"
KEY_COMPONENTID_BOBLIGHTSERVER == "BOBLIGHTSERVER"
KEY_COMPONENTID_SYSTEMGRABBER == "SYSTEMGRABBER"
KEY_COMPONENTID_LEDDEVICE == "LEDDEVICE"
KEY_COMPONENTID_VIDEOGRABBER == "VIDEOGRABBER"
KEY_COMPONENTID_HDR == "HDR"

COMPONENT_SWITCHES ==
  << KEY_COMPONENTID_ALL,
     KEY_COMPONENTID_SMOOTHING,
     KEY_COMPONENTID_BLACKBORDER,
     KEY_COMPONENTID_FORWARDER,
     KEY_COMPONENTID_BOBLIGHTSERVER,
     KEY_COMPONENTID_SYSTEMGRABBER,
     KEY_COMPONENTID_LEDDEVICE,
     KEY_COMPONENTID_VIDEOGRABBER,
     KEY_COMPONENTID_HDR >>

Range(s) == { s[i] : i \in DOMAIN s }

ManagedKinds == Range(COMPONENT_SWITCHES)

\* The library's table of display names, as sequences of characters.
KEY_COMPONENTID_TO_NAME ==
  [ k \in ManagedKinds |->
      CASE k = KEY_COMPONENTID_ALL -> <<"A","l","l">>
        [] k = KEY_COMPONENTID_SMOOTHING -> <<"S","m","o","o","t","h","i","n","g">>
        [] k = KEY_COMPONENTID_BLACKBORDER ->
             <<"B","l","a","c","k","b","a","r"," ","D","e","t","e","c","t","i","o","n">>
        [] k = KEY_COMPONENTID_FORWARDER -> <<"F","o","r","w","a","r","d","e","r">>
        [] k = KEY_COMPONENTID_BOBLIGHTSERVER ->
             <<"B","o","b","l","i","g","h","t"," ","S","e","r","v","e","r">>
        [] k = KEY_COMPONENTID_SYSTEMGRABBER ->
             <<"P","l","a","t","f","o","r","m"," ","C","a","p","t","u","r","e">>
        [] k = KEY_COMPONENTID_LEDDEVICE -> <<"L","E","D"," ","D","e","v","i","c","e">>
        [] k = KEY_COMPONENTID_VIDEOGRABBER ->
             <<"U","S","B"," ","C","a","p","t","u","r","e">>
        [] k = KEY_COMPONENTID_HDR ->
             <<"H","D","R"," ","T","o","n","e"," ","M","a","p","p","i","n","g">> ]

TYPE_HYPERHDR_COMPONENT_SWITCH_BASE ==
  <<"h","y","p","e","r","h","d","r","_","c","o","m","p","o","n","e","n","t","_",
    "s","w","i","t","c","h">>

(***************************************************************************)
(* slugify: lower-case the text, turn every run of characters that are not *)
(* letters or digits into one "_", and drop such runs at both ends.        *)
(***************************************************************************)
UpperCase ==
  <<"A","B","C","D","E","F","G","H","I","J","K","L","M",
    "N","O","P","Q","R","S","T","U","V","W","X","Y","Z">>
LowerCase ==
  <<"a","b","c","d","e","f","g","h","i","j","k","l","m",
    "n","o","p","q","r","s","t","u","v","w","x","y","z">>
Digits == <<"0","1","2","3","4","5","6","7","8","9">>

ToLower(c) ==
  IF \E i \in DOMAIN UpperCase : UpperCase[i] = c
    THEN LowerCase[CHOOSE i \in DOMAIN UpperCase : UpperCase[i] = c]
    ELSE c

AlnumChars == Range(UpperCase) \cup Range(LowerCase) \cup Range(Digits)

IsAlnum(c) == c \in AlnumChars

RECURSIVE SlugFrom(_, _, _, _)
SlugFrom(text, i, out, gap) ==
  IF i > Len(text) THEN out
  ELSE IF IsAlnum(text[i])
    THEN SlugFrom(text, i + 1,
                  out \o (IF gap /\ out # "" THEN "_" ELSE "") \o ToLower(text[i]),
                  FALSE)
    ELSE SlugFrom(text, i + 1, out, TRUE)

slugify(text) == SlugFrom(text, 1, "", FALSE)

(***************************************************************************)
(* Unique identifiers.  get_hyperhdr_unique_id joins the server id, the    *)
(* instance number and the name; the model keeps the three parts as a      *)
(* tuple.                                                                  *)
(***************************************************************************)
get_hyperhdr_unique_id(sid, instance, name) == << sid, instance, name >>

\* slugify(f"{TYPE_HYPERHDR_COMPONENT_SWITCH_BASE} {KEY_COMPONENTID_TO_NAME[component]}")
ComponentSlug ==
  [ k \in ManagedKinds |->
      slugify(TYPE_HYPERHDR_COMPONENT_SWITCH_BASE \o <<" ">> \o KEY_COMPONENTID_TO_NAME[k]) ]

UniqueIdWithoutInstance(sid, component, instance_num) ==
  get_hyperhdr_unique_id(sid, 0, ComponentSlug[component])

_component_to_unique_id(sid, component, instance_num) ==
  get_hyperhdr_unique_id(sid, instance_num, ComponentSlug[component])

\* SIGNAL_ENTITY_REMOVE.format(unique_id): the dispatcher signal of one entity.
SIGNAL_ENTITY_REMOVE(unique_id) == << "entity_remove_signal", unique_id >>

KEY_NAME == "name"
KEY_ENABLED == "enabled"

\* Python's None, the snapshot of a client that has received none: a value
\* apart from every list of entries.
None == << [ none |-> TRUE ] >>

(***************************************************************************)
(* The config entry this platform was set up for.                          *)
(***************************************************************************)
server_id == "srv"

\* entry_data[CONF_INSTANCE_CLIENTS]: the client handle of each instance.
CONF_INSTANCE_CLIENTS == [ n \in Instances |-> << "client", n >> ]

Clients == Range(CONF_INSTANCE_CLIENTS)

VARIABLES
  active,       \* instance numbers the directory reports as running
  switches,     \* the HyperHDRComponentSwitch objects constructed so far
  loop,         \* the host's queue of scheduled task batches, oldest first
  dispatcher,   \* connected listeners: pairs <<signal, switch>>
  callbacks,    \* per client: the switches whose callbacks are registered
  components,   \* per client: the component snapshot it holds (None before any)
  has_loaded_state, \* per client: whether its first full state load is complete
  inflight,     \* set-component requests the client has sent and not yet settled
  raced,        \* instances removed in the step right after their instance-added event
  last,         \* the step taken last: a directory event, a snapshot update, the
                \* client's answer to a request ("ok", "TransportError"), a service
                \* call ("turn_on", "turn_off"), a removal batch ("remove"), else "step"
  sent,         \* the signals the step taken last sent, in order
  registered,   \* the switches the step taken last handed to async_add_entities
  written,      \* the switches whose state the step taken last wrote, in order
  detached,     \* the switches whose async_will_remove_from_hass the step taken
                \* last ran, in order
  outcome,      \* what the step taken last returned or raised to the caller it resumed
  call          \* a function applied on its own: its arguments and, once applied, its result

vars ==
  << active, switches, loop, dispatcher, callbacks, components, has_loaded_state,
     inflight, raced, last, sent, registered, written, detached, outcome, call >>

NoCall == [ fn |-> "none" ]

NoOutcome == [ ent |-> 0, result |-> "none" ]

\* What a step reports of itself; each is empty unless the step produced it.
Reports(op, inst, signals, ids, writes, detaches, result) ==
  /\ last' = [ op |-> op, inst |-> inst ]
  /\ sent' = signals
  /\ registered' = ids
  /\ written' = writes
  /\ detached' = detaches
  /\ outcome' = result
  /\ call' = call

(***************************************************************************)
(* HyperHDRComponentSwitch.__init__                                        *)
(***************************************************************************)
HyperHDRComponentSwitch(sid, instance_num, component_name, hyperhdr_client) ==
  [ _unique_id |-> _component_to_unique_id(sid, component_name, instance_num),
    _component_name |-> component_name,
    _client |-> hyperhdr_client,
    instance_num |-> instance_num,
    state |-> "new" ]

Start ==
  /\ active = {}
  /\ switches = << >>
  /\ loop = << >>
  /\ dispatcher = {}
  /\ callbacks = [ c \in Clients |-> << >> ]
  /\ components = [ c \in Clients |-> None ]
  /\ has_loaded_state = [ c \in Clients |-> FALSE ]
  /\ inflight = << >>
  /\ raced = {}
  /\ last = [ op |-> "step", inst |-> 0 ]
  /\ sent = << >>
  /\ registered = << >>
  /\ written = << >>
  /\ detached = << >>
  /\ outcome = NoOutcome

Init ==
  /\ Start
  /\ call = NoCall

\* The part of the state the entity methods act on, and what the step under
\* way has done so far: the state writes and the detachments, in order.
World ==
  [ switches |-> switches, dispatcher |-> dispatcher, callbacks |-> callbacks,
    components |-> components, written |-> << >>, detached |-> << >> ]

Becomes(w) ==
  /\ switches' = w.switches
  /\ dispatcher' = w.dispatcher
  /\ callbacks' = w.callbacks
  /\ components' = w.components

(***************************************************************************)
(* is_on: the first snapshot entry named like the switch's component       *)
(* decides; setdefault stores enabled = False in an entry that lacks the   *)
(* field.  Reading the name of an entry that has none raises KeyError.     *)
(* The result holds the value returned, whether the read raised, and the   *)
(* snapshot as the read leaves it.                                         *)
(***************************************************************************)
setdefault(entry, key, default) ==
  IF key \in DOMAIN entry THEN entry ELSE entry @@ (key :> default)

RECURSIVE IsOnScan(_, _, _)
IsOnScan(snapshot, component_name, i) ==
  IF i > Len(snapshot)
    THEN [ value |-> FALSE, raised |-> FALSE, components |-> snapshot ]
  ELSE IF KEY_NAME \notin DOMAIN snapshot[i]
    THEN [ value |-> FALSE, raised |-> TRUE, components |-> snapshot ]
  ELSE IF snapshot[i][KEY_NAME] = component_name
    THEN LET entry == setdefault(snapshot[i], KEY_ENABLED, FALSE)
         IN [ value |-> entry[KEY_ENABLED] = TRUE, raised |-> FALSE,
              components |-> [ snapshot EXCEPT ![i] = entry ] ]
  ELSE IsOnScan(snapshot, component_name, i + 1)

IsOnFirstEntry(component_name, snapshot) ==
  IF snapshot = None \/ snapshot = << >>
    THEN [ value |-> FALSE, raised |-> FALSE, components |-> snapshot ]
    ELSE LET entry == setdefault(snapshot[1], KEY_ENABLED, FALSE)
         IN [ value |-> entry[KEY_ENABLED] = TRUE, raised |-> FALSE,
              components |-> [ snapshot EXCEPT ![1] = entry ] ]

is_on(component_name, snapshot) ==
  IF snapshot = None
    THEN [ value |-> FALSE, raised |-> FALSE, components |-> snapshot ]
    ELSE IsOnScan(snapshot, component_name, 1)

AvailableFromSnapshot(loaded, snapshot) == snapshot # None

available(loaded, snapshot) == loaded = TRUE

(***************************************************************************)
(* async_write_ha_state: the host reads available and, for an available    *)
(* entity, is_on.                                                          *)
(***************************************************************************)
async_write_ha_state(w, e) ==
  LET c == w.switches[e]._client
  IN IF available(has_loaded_state[c], w.components[c])
       THEN [ w EXCEPT !.components[c] =
                         is_on(w.switches[e]._component_name, w.components[c]).components,
                       !.written = Append(@, e) ]
       ELSE [ w EXCEPT !.written = Append(@, e) ]

UpdateComponentsCoalesced(w, e) ==
  IF w.components[w.switches[e]._client] = components[w.switches[e]._client]
    THEN w
    ELSE async_write_ha_state(w, e)

_update_components(w, e) == async_write_ha_state(w, e)

(***************************************************************************)
(* instance_add: one switch per managed component, all handed to the host  *)
(* in one async_add_entities call, which schedules their attachment.       *)
(***************************************************************************)
NewSwitchesOneClient(instance_num) ==
  [ i \in DOMAIN COMPONENT_SWITCHES |->
      HyperHDRComponentSwitch(server_id, instance_num, COMPONENT_SWITCHES[i],
                              CONF_INSTANCE_CLIENTS[1]) ]

NewSwitches(instance_num) ==
  [ i \in DOMAIN COMPONENT_SWITCHES |->
      HyperHDRComponentSwitch(server_id, instance_num, COMPONENT_SWITCHES[i],
                              CONF_INSTANCE_CLIENTS[instance_num]) ]

async_add_entities(ids) ==
  loop' = Append(loop, [ op |-> "add_entities", ents |-> ids ])

instance_add(instance_num) ==
  LET new == NewSwitches(instance_num)
      ids == [ i \in DOMAIN new |-> Len(switches) + i ]
  IN /\ switches' = switches \o new
     /\ async_add_entities(ids)
     /\ Reports("instance_add", instance_num, << >>, ids, << >>, << >>, NoOutcome)
     /\ UNCHANGED << dispatcher, callbacks, components >>

(***************************************************************************)
(* The host runs the attachment of one async_add_entities call, switch     *)
(* after switch.  A switch whose unique id is already held by an attached  *)
(* entity is refused; any other one is attached, its async_added_to_hass   *)
(* runs and its first state is written.                                    *)
(***************************************************************************)
UniqueIdTaken(w, e) ==
  \E o \in DOMAIN w.switches :
    /\ o # e
    /\ w.switches[o].state = "added"
    /\ w.switches[o]._unique_id = w.switches[e]._unique_id

AddedToHassEveryClient(w, e) ==
  [ w EXCEPT
      !.dispatcher = @ \cup { << SIGNAL_ENTITY_REMOVE(w.switches[e]._unique_id), e >> },
      !.callbacks = [ c \in Clients |-> Append(w.callbacks[c], e) ] ]

\* async_added_to_hass: connect the removal listener, register the callbacks.
async_added_to_hass(w, e) ==
  [ w EXCEPT
      !.dispatcher = @ \cup { << SIGNAL_ENTITY_REMOVE(w.switches[e]._unique_id), e >> },
      !.callbacks[w.switches[e]._client] = Append(@, e) ]

AddEntity(w, e) ==
  IF UniqueIdTaken(w, e)
    THEN [ w EXCEPT !.switches[e].state = "refused" ]
    ELSE async_write_ha_state(
           async_added_to_hass([ w EXCEPT !.switches[e].state = "added" ], e), e)

RECURSIVE AddEntities(_, _)
AddEntities(w, ents) ==
  IF ents = << >> THEN w
  ELSE AddEntities(AddEntity(w, Head(ents)), Tail(ents))

RunAddEntities ==
  /\ loop # << >>
  /\ Head(loop).op = "add_entities"
  /\ loop' = Tail(loop)
  /\ LET w == AddEntities(World, Head(loop).ents)
     IN /\ Becomes(w)
        /\ Reports("step", 0, << >>, << >>, w.written, << >>, NoOutcome)
  /\ UNCHANGED << active, raced, has_loaded_state, inflight >>

(***************************************************************************)
(* instance_remove: one removal signal per managed component.  The         *)
(* dispatcher schedules the async_remove of every listener connected to    *)
(* the signal at that moment.                                              *)
(***************************************************************************)
RECURSIVE SeqOfSet(_)
SeqOfSet(S) ==
  IF S = {} THEN << >>
  ELSE LET m == CHOOSE x \in S : \A y \in S : x <= y
       IN << m >> \o SeqOfSet(S \ {m})

Listeners(signal) == SeqOfSet({ e \in DOMAIN switches : << signal, e >> \in dispatcher })

RemoveSignalsOfInstanceOne(instance_num) ==
  [ i \in DOMAIN COMPONENT_SWITCHES |->
      SIGNAL_ENTITY_REMOVE(_component_to_unique_id(server_id, COMPONENT_SWITCHES[i], 1)) ]

RemoveSignalsEveryInstance(instance_num) ==
  [ i \in 1..(2 * Len(COMPONENT_SWITCHES)) |->
      SIGNAL_ENTITY_REMOVE(
        _component_to_unique_id(
          server_id,
          COMPONENT_SWITCHES[((i - 1) % Len(COMPONENT_SWITCHES)) + 1],
          IF i <= Len(COMPONENT_SWITCHES) THEN 1 ELSE 2)) ]

RemoveSignals(instance_num) ==
  [ i \in DOMAIN COMPONENT_SWITCHES |->
      SIGNAL_ENTITY_REMOVE(
        _component_to_unique_id(server_id, COMPONENT_SWITCHES[i], instance_num)) ]

RECURSIVE async_dispatcher_send(_, _)
async_dispatcher_send(signals, i) ==
  IF i > Len(signals) THEN << >>
  ELSE Listeners(signals[i]) \o async_dispatcher_send(signals, i + 1)

instance_remove(instance_num) ==
  LET signals == RemoveSignals(instance_num)
      targets == async_dispatcher_send(signals, 1)
  IN /\ loop' = IF targets = << >> THEN loop
                ELSE Append(loop, [ op |-> "remove", ents |-> targets ])
     /\ Reports("instance_remove", instance_num, signals, << >>, << >>, << >>, NoOutcome)
     /\ UNCHANGED << switches, dispatcher, callbacks, components >>

(***************************************************************************)
(* The scheduled async_remove of a switch: the host drops the listeners    *)
(* given to async_on_remove, then async_will_remove_from_hass unregisters  *)
(* the client callbacks.  The host refuses to remove an entity twice.      *)
(***************************************************************************)
RECURSIVE Without(_, _)
Without(s, x) ==
  IF s = << >> THEN << >>
  ELSE IF Head(s) = x THEN Tail(s)
  ELSE << Head(s) >> \o Without(Tail(s), x)

WillRemoveKeepsCallbacks(w, e) == w

async_will_remove_from_hass(w, e) ==
  [ w EXCEPT !.callbacks[w.switches[e]._client] = Without(@, e),
             !.detached = Append(@, e) ]

AsyncRemoveUnguarded(w, e) ==
  async_will_remove_from_hass(
    [ w EXCEPT !.dispatcher = { d \in @ : d[2] # e },
               !.switches[e].state = "removed" ], e)

async_remove(w, e) ==
  IF w.switches[e].state = "added"
    THEN async_will_remove_from_hass(
           [ w EXCEPT !.dispatcher = { d \in @ : d[2] # e },
                      !.switches[e].state = "removed" ], e)
    ELSE w

RECURSIVE RemoveEntities(_, _)
RemoveEntities(w, ents) ==
  IF ents = << >> THEN w
  ELSE RemoveEntities(async_remove(w, Head(ents)), Tail(ents))

RunRemove ==
  /\ loop # << >>
  /\ Head(loop).op = "remove"
  /\ loop' = Tail(loop)
  /\ LET w == RemoveEntities(World, Head(loop).ents)
     IN /\ Becomes(w)
        /\ Reports("remove", 0, << >>, << >>, << >>, w.detached, NoOutcome)
  /\ UNCHANGED << active, raced, has_loaded_state, inflight >>

(***************************************************************************)
(* The instance directory (listen_for_instance_updates): it announces an   *)
(* instance as added when it starts running and as removed when it stops.  *)
(***************************************************************************)
InstanceAdded(n) ==
  /\ n \notin active
  /\ Len(switches) < MaxAdds * Len(COMPONENT_SWITCHES)
  /\ active' = active \cup {n}
  /\ raced' = raced \ {n}
  /\ instance_add(n)
  /\ UNCHANGED << has_loaded_state, inflight >>

InstanceRemoved(n) ==
  /\ Len(loop) < MaxLoop
  /\ active' = active \ {n}
  /\ raced' = IF last = [ op |-> "instance_add", inst |-> n ]
               THEN raced \cup {n} ELSE raced \ {n}
  /\ instance_remove(n)
  /\ UNCHANGED << has_loaded_state, inflight >>

(***************************************************************************)
(* The client.  It completes its first full state load once; it replaces   *)
(* its snapshot when the server reports the components and then calls the  *)
(* registered components-update callbacks in the order of registration.    *)
(***************************************************************************)
Entry(name, enabled) == (KEY_NAME :> name) @@ (KEY_ENABLED :> enabled)
EntryNoEnabled(name) == (KEY_NAME :> name)

PushedSnapshots ==
  { << Entry(KEY_COMPONENTID_HDR, TRUE) >>,
    << EntryNoEnabled(KEY_COMPONENTID_HDR) >> }

ClientLoadsState(c) ==
  /\ ~has_loaded_state[c]
  /\ has_loaded_state' = [ has_loaded_state EXCEPT ![c] = TRUE ]
  /\ Reports("step", 0, << >>, << >>, << >>, << >>, NoOutcome)
  /\ UNCHANGED << active, switches, loop, dispatcher, callbacks, components,
                  inflight, raced >>

\* The client loses the connection: its state is no longer loaded.
ClientDisconnects(c) ==
  /\ has_loaded_state[c]
  /\ has_loaded_state' = [ has_loaded_state EXCEPT ![c] = FALSE ]
  /\ Reports("step", 0, << >>, << >>, << >>, << >>, NoOutcome)
  /\ UNCHANGED << active, switches, loop, dispatcher, callbacks, components,
                  inflight, raced >>

RECURSIVE Notify(_, _)
Notify(w, handlers) ==
  IF handlers = << >> THEN w
  ELSE Notify(_update_components(w, Head(handlers)), Tail(handlers))

ClientComponentsUpdate(c, snapshot) ==
  /\ LET w == Notify([ World EXCEPT !.components[c] = snapshot ], callbacks[c])
     IN /\ Becomes(w)
        /\ Reports("update", c[2], << >>, << >>, w.written, << >>, NoOutcome)
  /\ UNCHANGED << active, loop, has_loaded_state, inflight, raced >>

(***************************************************************************)
(* async_turn_on / async_turn_off: one set-component request of the        *)
(* switch's own component; the caller awaits the client's answer, which is *)
(* a success or a transport error raised to the caller.                    *)
(***************************************************************************)
ServiceKinds == { KEY_COMPONENTID_HDR }

SendAndSetOptimistically(e, value) ==
  /\ inflight' = Append(inflight, [ ent |-> e,
                                    component |-> switches[e]._component_name,
                                    state |-> value ])
  /\ components' =
       [ components EXCEPT ![switches[e]._client] =
           << Entry(switches[e]._component_name, value) >> ]

_async_send_set_component(e, value) ==
  /\ inflight' = Append(inflight, [ ent |-> e,
                                    component |-> switches[e]._component_name,
                                    state |-> value ])
  /\ components' = components

Call(e, service) ==
  /\ switches[e].state = "added"
  /\ switches[e]._component_name \in ServiceKinds
  /\ Len(inflight) < MaxInflight
  /\ Reports(service, 0, << >>, << >>, << >>, << >>, NoOutcome)
  /\ UNCHANGED << active, switches, loop, dispatcher, callbacks, has_loaded_state,
                  raced >>

async_turn_on(e) ==
  /\ Call(e, "turn_on")
  /\ _async_send_set_component(e, TRUE)

TurnOffSendsTrue(e) ==
  /\ Call(e, "turn_off")
  /\ _async_send_set_component(e, TRUE)

async_turn_off(e) ==
  /\ Call(e, "turn_off")
  /\ _async_send_set_component(e, FALSE)

Drop(s, i) == [ j \in 1..(Len(s) - 1) |-> IF j < i THEN s[j] ELSE s[j + 1] ]

SettleWithRetry(i, result) ==
  /\ Reports(result, 0, << >>, << >>, << >>, << >>,
             IF result = "TransportError" THEN NoOutcome
             ELSE [ ent |-> inflight[i].ent, result |-> result ])
  /\ inflight' = IF result = "TransportError"
                  THEN Append(Drop(inflight, i), inflight[i])
                  ELSE Drop(inflight, i)

SettleThenWrite(i, result) ==
  /\ Reports(result, 0, << >>, << >>, << inflight[i].ent >>, << >>,
             [ ent |-> inflight[i].ent, result |-> result ])
  /\ inflight' = Drop(inflight, i)

\* The awaited client call returns or raises; nothing catches the error.
Settle(i, result) ==
  /\ Reports(result, 0, << >>, << >>, << >>, << >>,
             [ ent |-> inflight[i].ent, result |-> result ])
  /\ inflight' = Drop(inflight, i)

RequestSettles(i, result) ==
  /\ Settle(i, result)
  /\ UNCHANGED << active, switches, loop, dispatcher, callbacks, components,
                  has_loaded_state, raced >>

Next ==
  \/ \E n \in Instances : InstanceAdded(n)
  \/ \E n \in Instances : InstanceRemoved(n)
  \/ RunAddEntities
  \/ RunRemove
  \/ \E c \in Clients : ClientLoadsState(c)
  \/ \E c \in Clients : ClientDisconnects(c)
  \/ \E c \in Clients, snapshot \in PushedSnapshots : ClientComponentsUpdate(c, snapshot)
  \/ \E e \in DOMAIN switches : async_turn_on(e)
  \/ \E e \in DOMAIN switches : async_turn_off(e)
  \/ \E i \in DOMAIN inflight, result \in { "ok", "TransportError" } :
       RequestSettles(i, result)

Spec == Init /\ [][Next]_vars

(***************************************************************************)
(* is_on applied on its own, to every managed component and every snapshot *)
(* of at most MaxSnapshot entries with distinct names.                     *)
(***************************************************************************)
SnapshotNames == { KEY_COMPONENTID_SMOOTHING, KEY_COMPONENTID_FORWARDER, "UNKNOWN" }

Entries ==
  { Entry(n, b) : n \in SnapshotNames, b \in BOOLEAN }
    \cup { EntryNoEnabled(n) : n \in SnapshotNames }

DistinctNames(snapshot) ==
  \A i, j \in DOMAIN snapshot : i # j => snapshot[i][KEY_NAME] # snapshot[j][KEY_NAME]

Snapshots ==
  { None } \cup
  UNION { { snapshot \in [ 1..len -> Entries ] : DistinctNames(snapshot) } :
          len \in 0..MaxSnapshot }

InitIsOn ==
  /\ Start
  /\ call \in [ fn : { "is_on" }, component_name : ManagedKinds,
                snapshot : Snapshots, done : { FALSE },
                result : { [ value |-> FALSE, raised |-> FALSE, components |-> None ] } ]

ReadIsOn ==
  /\ call.fn = "is_on"
  /\ ~call.done
  /\ call' = [ call EXCEPT !.done = TRUE,
                           !.result = is_on(call.component_name, call.snapshot) ]
  /\ UNCHANGED << active, switches, loop, dispatcher, callbacks, components,
                  has_loaded_state, inflight, raced, last, sent, registered,
                  written, detached, outcome >>

SpecIsOn == InitIsOn /\ [][ReadIsOn]_vars

(***************************************************************************)
(* is_on applied on its own to snapshots whose entries may also lack the    *)
(* name field.                                                             *)
(***************************************************************************)
EntryNoName(enabled) == (KEY_ENABLED :> enabled)

AnyEntries == Entries \cup { EntryNoName(TRUE) }

DistinctNamed(snapshot) ==
  \A i, j \in DOMAIN snapshot :
    (i # j /\ KEY_NAME \in DOMAIN snapshot[i] /\ KEY_NAME \in DOMAIN snapshot[j])
      => snapshot[i][KEY_NAME] # snapshot[j][KEY_NAME]

AnySnapshots ==
  { None } \cup
  UNION { { snapshot \in [ 1..len -> AnyEntries ] : DistinctNamed(snapshot) } :
          len \in 0..MaxSnapshot }

InitIsOnAny ==
  /\ Start
  /\ call \in [ fn : { "is_on" }, component_name : ManagedKinds,
                snapshot : AnySnapshots, done : { FALSE },
                result : { [ value |-> FALSE, raised |-> FALSE, components |-> None ] } ]

SpecIsOnAny == InitIsOnAny /\ [][ReadIsOn]_vars

(***************************************************************************)
(* _component_to_unique_id applied on its own to two argument triples.     *)
(***************************************************************************)
ServerIds == { "srv", "srv_1" }

Triples == [ sid : ServerIds, instance_num : { 0, 1, 2 }, component : ManagedKinds ]

InitUniqueId ==
  /\ Start
  /\ call \in [ fn : { "unique_id" }, a : Triples, b : Triples, done : { FALSE },
                result : { << >> } ]

ComputeUniqueIds ==
  /\ call.fn = "unique_id"
  /\ ~call.done
  /\ call' = [ call EXCEPT !.done = TRUE, !.result =
       << _component_to_unique_id(call.a.sid, call.a.component, call.a.instance_num),
          _component_to_unique_id(call.b.sid, call.b.component, call.b.instance_num) >> ]
  /\ UNCHANGED << active, switches, loop, dispatcher, callbacks, components,
                  has_loaded_state, inflight, raced, last, sent, registered,
                  written, detached, outcome >>

SpecUniqueId == InitUniqueId /\ [][ComputeUniqueIds]_vars

(***************************************************************************)
(* Properties.                                                             *)
(***************************************************************************)
Live(e) == switches[e].state \in { "new", "added" }

IsOnOf(sw, comps, e) == is_on(sw[e]._component_name, comps[sw[e]._client]).value

AvailableOf(sw, loaded, comps, e) == available(loaded[sw[e]._client], comps[sw[e]._client])

HasEnabledEntry(snapshot, k) ==
  /\ snapshot # None
  /\ \E i \in DOMAIN snapshot :
       /\ snapshot[i][KEY_NAME] = k
       /\ KEY_ENABLED \in DOMAIN snapshot[i]
       /\ snapshot[i][KEY_ENABLED] = TRUE

\* C1: for every managed component k and every snapshot S (missing, empty, or
\* entries with distinct names, some without an enabled field), is_on returns
\* true exactly when S holds an entry named k whose enabled field is true.
C1_IsOnIffEnabledEntry ==
  (call.fn = "is_on" /\ call.done) =>
    /\ ~call.result.raised
    /\ call.result.value = HasEnabledEntry(call.snapshot, call.component_name)

C1_Witness ==
  /\ call.fn = "is_on" /\ call.done
  /\ call.snapshot # None /\ Len(call.snapshot) = 2
  /\ call.snapshot[2][KEY_NAME] = call.component_name
  /\ KEY_ENABLED \notin DOMAIN call.snapshot[1]
  /\ call.result.value = TRUE

\* C2: a step changes the value is_on returns for a switch only if it is a
\* snapshot update of that switch's client; async_turn_on, async_turn_off and
\* the settling of their requests leave every is_on value as it was.
C2_OnlyUpdateChangesIsOn ==
  [][ \A e \in DOMAIN switches :
        IsOnOf(switches', components', e) # IsOnOf(switches, components, e)
          => /\ last'.op = "update"
             /\ CONF_INSTANCE_CLIENTS[last'.inst] = switches[e]._client ]_vars

C2_Witness ==
  \E i \in DOMAIN inflight :
    /\ inflight[i].state = TRUE
    /\ ~IsOnOf(switches, components, inflight[i].ent)
    /\ components[switches[inflight[i].ent]._client] # None

\* C3: when instance-removed for n is the step right after instance-added for
\* n, the removal sends exactly one signal per managed component, and once
\* the host has run every scheduled task no switch of instance n is live.
C3_AddThenRemoveLeavesNone ==
  \A n \in raced :
    /\ last = [ op |-> "instance_remove", inst |-> n ] =>
         /\ Len(sent) = Len(COMPONENT_SWITCHES)
         /\ \A i \in DOMAIN sent :
              sent[i] = SIGNAL_ENTITY_REMOVE(
                          << server_id, n, ComponentSlug[COMPONENT_SWITCHES[i]] >>)
    /\ loop = << >> =>
         \A e \in DOMAIN switches : switches[e].instance_num = n => ~Live(e)

\* C4: in every state, every active instance has exactly one live switch for
\* each managed component.
C4_ExactlyOneLivePerComponent ==
  \A n \in active, k \in ManagedKinds :
    Cardinality({ e \in DOMAIN switches :
                    /\ Live(e)
                    /\ switches[e].instance_num = n
                    /\ switches[e]._component_name = k }) = 1

\* C5: an instance-added event for n constructs nine switches, one per managed
\* component, each bound to the client handle of instance n, and hands exactly
\* these to the host in one async_add_entities call.
C5_InstanceAddCreatesOnePerComponent ==
  [][ last'.op = "instance_add" =>
        LET n == last'.inst
            fresh == (Len(switches) + 1)..Len(switches')
        IN /\ Cardinality(ManagedKinds) = 9
           /\ Cardinality(fresh) = 9
           /\ \A e \in DOMAIN switches : switches'[e] = switches[e]
           /\ \A k \in ManagedKinds :
                Cardinality({ e \in fresh : switches'[e]._component_name = k }) = 1
           /\ \A e \in fresh :
                /\ switches'[e]._client = CONF_INSTANCE_CLIENTS[n]
                /\ switches'[e].instance_num = n
           /\ Range(registered') = fresh
           /\ Len(registered') = 9
           /\ Len(loop') = Len(loop) + 1
           /\ loop'[Len(loop')] = [ op |-> "add_entities", ents |-> registered' ] ]_vars

C5_Witness ==
  /\ last = [ op |-> "instance_add", inst |-> 2 ]
  /\ Len(switches) = 2 * Len(COMPONENT_SWITCHES)
  /\ \E e \in DOMAIN switches : switches[e].instance_num = 1

\* C6: an instance-removed event for n sends one signal per managed component;
\* for every switch instance_add made for n, exactly one of the signals carries
\* that switch's unique id, the one at the position of its component; and
\* every attached switch of n is scheduled for removal once by the event.
C6_RemovalSignalsMatchUniqueIds ==
  last.op = "instance_remove" =>
    LET n == last.inst
    IN /\ Len(sent) = Len(COMPONENT_SWITCHES)
       /\ \A e \in DOMAIN switches :
            switches[e].instance_num = n =>
              \A i \in DOMAIN sent :
                (sent[i] = SIGNAL_ENTITY_REMOVE(switches[e]._unique_id))
                  = (COMPONENT_SWITCHES[i] = switches[e]._component_name)
       /\ \A e \in DOMAIN switches :
            (switches[e].instance_num = n /\ switches[e].state = "added") =>
              /\ loop # << >>
              /\ loop[Len(loop)].op = "remove"
              /\ Cardinality({ j \in DOMAIN loop[Len(loop)].ents :
                                 loop[Len(loop)].ents[j] = e }) = 1

C6_Witness ==
  /\ last = [ op |-> "instance_remove", inst |-> 2 ]
  /\ \E e \in DOMAIN switches :
       switches[e].instance_num = 2 /\ switches[e].state = "added"

C9_SubscriptionsPaired ==
  /\ \A e \in DOMAIN switches, c \in Clients :
       Cardinality({ i \in DOMAIN callbacks[c] : callbacks[c][i] = e })
         = IF switches[e].state = "added" /\ c = switches[e]._client THEN 1 ELSE 0
  /\ \A e \in DOMAIN switches :
       { d \in dispatcher : d[2] = e }
         = IF switches[e].state = "added"
             THEN { << SIGNAL_ENTITY_REMOVE(switches[e]._unique_id), e >> }
             ELSE {}
  /\ last.op = "update" =>
       \A i \in DOMAIN written : switches[written[i]].state = "added"

C9_Witness ==
  /\ last.op = "update"
  /\ \E e \in DOMAIN switches :
       /\ switches[e].state = "removed"
       /\ switches[e]._client = CONF_INSTANCE_CLIENTS[last.inst]
  /\ written # << >>

\* C10: when the client fails a request with a transport error, the caller of
\* that request gets the error, the request is gone and no other is sent, and
\* the switches, their subscriptions, the scheduled tasks, the active
\* instances and the clients' state stay as they were.
C10_TransportErrorIsLocal ==
  [][ last'.op = "TransportError" =>
        /\ outcome'.result = "TransportError"
        /\ \E i \in DOMAIN inflight :
             /\ outcome'.ent = inflight[i].ent
             /\ inflight' = Drop(inflight, i)
        /\ UNCHANGED << switches, dispatcher, callbacks, loop, active,
                        components, has_loaded_state >> ]_vars

C10_Witness ==
  /\ last.op = "TransportError"
  /\ outcome.result = "TransportError"
  /\ \E e \in DOMAIN switches :
       /\ e # outcome.ent
       /\ switches[e].state = "added"
       /\ switches[e].instance_num = switches[outcome.ent].instance_num

Count(s, x) == Cardinality({ i \in DOMAIN s : s[i] = x })

SwitchesOf(n) == { e \in DOMAIN switches : switches[e].instance_num = n }

NewestOf(n) ==
  { e \in SwitchesOf(n) : \A o \in SwitchesOf(n) : o < e + Len(COMPONENT_SWITCHES) }

\* C12: when an instance that was removed is active again, the switches made
\* for it by the latest instance-added event are new objects carrying the
\* unique ids of the earlier switches of the same component, and once the
\* host has run every scheduled task none of the earlier switches is live.
C12_ReAddMakesFreshEntities ==
  \A n \in active :
    /\ \A e \in NewestOf(n), o \in SwitchesOf(n) \ NewestOf(n) :
         /\ e # o
         /\ switches[e]._component_name = switches[o]._component_name
              => switches[e]._unique_id = switches[o]._unique_id
    /\ loop = << >> => \A o \in SwitchesOf(n) \ NewestOf(n) : ~Live(o)

\* C13: a call of async_turn_on adds exactly one request, carrying the
\* switch's own component and state true; a call of async_turn_off adds
\* exactly one carrying that component and state false; and no other step
\* adds a request.
C13_OneRequestPerCall ==
  [][ /\ last'.op = "turn_on" =>
           \E e \in DOMAIN switches :
             inflight' = Append(inflight, [ ent |-> e,
                                            component |-> switches[e]._component_name,
                                            state |-> TRUE ])
      /\ last'.op = "turn_off" =>
           \E e \in DOMAIN switches :
             inflight' = Append(inflight, [ ent |-> e,
                                            component |-> switches[e]._component_name,
                                            state |-> FALSE ])
      /\ last'.op \notin { "turn_on", "turn_off" } =>
           \/ inflight' = inflight
           \/ \E i \in DOMAIN inflight : inflight' = Drop(inflight, i) ]_vars

C13_Witness ==
  /\ last.op = "turn_off"
  /\ Len(inflight) = 1
  /\ inflight[1].state = FALSE
  /\ inflight[1].component = KEY_COMPONENTID_HDR
  /\ switches[inflight[1].ent].instance_num = 2

\* C14: every components-update notification of a client writes the state
\* of each switch attached to that client exactly once, inside the
\* notification itself (so the writes of a switch follow the order of the
\* notifications), whether or not the snapshot differs from the one before;
\* and no other step than an attachment writes a state.
C14_OneWritePerNotification ==
  [][ /\ last'.op = "update" =>
           \A e \in DOMAIN switches :
             Count(written', e)
               = IF /\ switches[e].state = "added"
                    /\ switches[e]._client = CONF_INSTANCE_CLIENTS[last'.inst]
                   THEN 1 ELSE 0
      /\ (last'.op # "update" /\ written' # << >>) =>
           /\ loop # << >>
           /\ Head(loop).op = "add_entities"
           /\ \A i \in DOMAIN written' :
                switches[written'[i]].state = "new" ]_vars

C14_Witness ==
  /\ last = [ op |-> "update", inst |-> 1 ]
  /\ Len(written) = Len(COMPONENT_SWITCHES)
  /\ components[CONF_INSTANCE_CLIENTS[1]] = << Entry(KEY_COMPONENTID_HDR, TRUE) >>
  /\ ~has_loaded_state[CONF_INSTANCE_CLIENTS[1]]

\* The entries of a snapshot that are not of a kind outside the managed set.
KnownOnly(snapshot) ==
  IF snapshot = None THEN None
  ELSE SelectSeq(snapshot,
                 LAMBDA entry : KEY_NAME \in DOMAIN entry => entry[KEY_NAME] \in ManagedKinds)

\* C15: for every managed component and every snapshot (missing, empty,
\* entries of unknown kinds, entries without the enabled or without the name
\* field), is_on returns a boolean and does not raise, and it returns what it
\* returns for the snapshot without the entries of unknown kinds.
C15_IsOnTotal ==
  (call.fn = "is_on" /\ call.done) =>
    /\ ~call.result.raised
    /\ call.result.value \in BOOLEAN
    /\ call.result.value = is_on(call.component_name, KnownOnly(call.snapshot)).value

\* C16: a read of is_on leaves the snapshot as it was: every entry has the
\* fields and values it had before the read.
C16_ReadLeavesSnapshot ==
  (call.fn = "is_on" /\ call.done) => call.result.components = call.snapshot

\* C17: when the client answers (success or error) a request of a switch
\* that has been torn down meanwhile, the step writes no state, attaches and
\* detaches nothing, and leaves every switch, subscription, snapshot and
\* scheduled task as it was.
C17_LateCompletionChangesNothing ==
  [][ ( /\ last'.op \in { "ok", "TransportError" }
        /\ outcome'.ent \in DOMAIN switches
        /\ switches[outcome'.ent].state = "removed" ) =>
        /\ written' = << >>
        /\ detached' = << >>
        /\ registered' = << >>
        /\ UNCHANGED << switches, dispatcher, callbacks, components, loop,
                        has_loaded_state, active >> ]_vars

C17_Witness ==
  /\ last.op \in { "ok", "TransportError" }
  /\ outcome.ent \in DOMAIN switches
  /\ switches[outcome.ent].state = "removed"
  /\ \E e \in DOMAIN switches : switches[e].state = "added"

\* C18: an instance-removed event for n changes no switch and no
\* subscription by itself, none of its signals is the signal of a switch of
\* another instance, and the removals it schedules are of switches of n
\* only; a removal batch leaves every switch outside the batch attached as it
\* was, with its callbacks and its listener.
C18_RemoveTouchesOnlyItsInstance ==
  [][ /\ last'.op = "instance_remove" =>
           /\ UNCHANGED << switches, dispatcher, callbacks >>
           /\ \A e \in DOMAIN switches :
                switches[e].instance_num # last'.inst =>
                  Count(sent', SIGNAL_ENTITY_REMOVE(switches[e]._unique_id)) = 0
           /\ loop' # loop =>
                /\ loop' = Append(loop, loop'[Len(loop')])
                /\ \A j \in DOMAIN loop'[Len(loop')].ents :
                     switches[loop'[Len(loop')].ents[j]].instance_num = last'.inst
      /\ last'.op = "remove" =>
           \A e \in DOMAIN switches :
             Count(Head(loop).ents, e) = 0 =>
               /\ switches'[e] = switches[e]
               /\ { d \in dispatcher' : d[2] = e } = { d \in dispatcher : d[2] = e }
               /\ \A c \in Clients : Count(callbacks'[c], e) = Count(callbacks[c], e) ]_vars

C18_Witness ==
  /\ last.op = "remove"
  /\ detached # << >>
  /\ \A i \in DOMAIN detached : switches[detached[i]].instance_num = 1
  /\ \E e \in DOMAIN switches :
       /\ switches[e].instance_num = 2
       /\ switches[e].state = "added"
       /\ Count(callbacks[switches[e]._client], e) = 1
       /\ << SIGNAL_ENTITY_REMOVE(switches[e]._unique_id), e >> \in dispatcher

\* C19: an instance-removed event for an instance that is not active (never
\* added, or removed already) reaches no listener, so it schedules nothing,
\* and it leaves the switches and all subscriptions as they were.
C19_RemoveOfAbsentInstanceIsInert ==
  [][ (last'.op = "instance_remove" /\ last'.inst \notin active) =>
        /\ loop' = loop
        /\ UNCHANGED << switches, dispatcher, callbacks >> ]_vars

\* C20: a snapshot update of the client of instance A leaves the is_on and
\* the available value of every switch of another instance as they were and
\* writes the state of none of them.
C20_UpdateStaysInItsInstance ==
  [][ last'.op = "update" =>
        \A e \in DOMAIN switches :
          switches[e].instance_num # last'.inst =>
            /\ IsOnOf(switches', components', e) = IsOnOf(switches, components, e)
            /\ AvailableOf(switches', has_loaded_state', components', e)
                 = AvailableOf(switches, has_loaded_state, components, e)
            /\ Count(written', e) = 0 ]_vars

C20_Witness ==
  /\ last = [ op |-> "update", inst |-> 1 ]
  /\ \E a, b \in DOMAIN switches :
       /\ switches[a].instance_num = 1 /\ switches[a].state = "added"
       /\ switches[b].instance_num = 2 /\ switches[b].state = "added"
       /\ switches[a]._component_name = switches[b]._component_name
       /\ Count(written, a) = 1
       /\ IsOnOf(switches, components, a)
       /\ components[switches[b]._client] # None
       /\ ~IsOnOf(switches, components, b)
       /\ AvailableOf(switches, has_loaded_state, components, a)
       /\ AvailableOf(switches, has_loaded_state, components, b)

====
